---- MODULE Spec2Model ----
(***************************************************************************)
(* Model of the audio transcription pipeline of line-speech-to-text:       *)
(* services/transcription.py (TranscriptionService).                       *)
(*                                                                         *)
(* Strings are sequences of one-character strings, so that substring       *)
(* tests, the retry-hint regular expression, slicing and joining are       *)
(* computed as the code computes them.  Times are exact rationals          *)
(* [num, den] (seconds = num / den); probed and reported durations are     *)
(* whole seconds.                                                          *)
(*                                                                         *)
(* Spec      one call of transcribe(): staging, _split_audio, the pool of  *)
(*           _transcribe_single calls, collection, merge and the finally   *)
(*           block.  Staging and mkdtemp are taken to succeed; the probe,  *)
(*           every ffmpeg run and every provider request answer freely.    *)
(* HintSpec  the except-branch of _transcribe_single on every short error  *)
(*           message carrying "try again in <text>".                       *)
(***************************************************************************)
EXTENDS Integers, Sequences, FiniteSets, TLC

\* Python's None for a value that may be absent: the empty set, a present
\* value v being {v}
None == {}
Some(v) == {v}
The(o) == CHOOSE v \in o : TRUE

\* ------------------------------------------------------------------------
\* Bounds of the model
\* ------------------------------------------------------------------------
\* largest number of ranges the splitter is asked to extract
MaxChunks == 3
\* longest text following "try again in " in the retry-hint specification
MaxHintLen == 4

\* ------------------------------------------------------------------------
\* Program constants (transcription.py:15-21, 147)
\* ------------------------------------------------------------------------
MAX_FILE_SIZE == 25 * 1024 * 1024
CHUNK_DURATION == 1500
\* mutant: a pool of one worker
MAX_WORKERS_mut == 2 - 1
MAX_WORKERS == 2
\* mutant: one retry more
max_retries_mut == 3 + 1
max_retries == 3

\* ------------------------------------------------------------------------
\* Strings
\* ------------------------------------------------------------------------
Digits == <<"0", "1", "2", "3", "4", "5", "6", "7", "8", "9">>
UpperCase == <<"A", "B", "C", "D", "E", "F", "G", "H", "I", "J", "K", "L", "M",
               "N", "O", "P", "Q", "R", "S", "T", "U", "V", "W", "X", "Y", "Z">>
LowerCase == <<"a", "b", "c", "d", "e", "f", "g", "h", "i", "j", "k", "l", "m",
               "n", "o", "p", "q", "r", "s", "t", "u", "v", "w", "x", "y", "z">>

IsDigit(c) == \E k \in 1..10 : Digits[k] = c
DigitVal(c) == (CHOOSE k \in 1..10 : Digits[k] = c) - 1

\* str.lower(), character by character
LowerChar(c) ==
    IF \E k \in 1..26 : UpperCase[k] = c
    THEN LowerCase[CHOOSE k \in 1..26 : UpperCase[k] = c]
    ELSE c
Lower(s) == [k \in 1..Len(s) |-> LowerChar(s[k])]

\* `sub in s`
MatchesAt(s, p, sub) ==
    /\ p + Len(sub) - 1 <= Len(s)
    /\ \A k \in 1..Len(sub) : s[p + k - 1] = sub[k]
Contains(s, sub) == \E p \in 1..(Len(s) + 1) : MatchesAt(s, p, sub)

\* s[:n]
Take(s, n) == SubSeq(s, 1, IF Len(s) < n THEN Len(s) ELSE n)

\* str(n) for a natural number
RECURSIVE Str(_)
Str(n) == IF n < 10 THEN <<Digits[n + 1]>> ELSE Str(n \div 10) \o <<Digits[(n % 10) + 1]>>

\* int(s) for a string of decimal digits
RECURSIVE ParseInt(_)
ParseInt(s) ==
    IF Len(s) = 0 THEN 0
    ELSE 10 * ParseInt(SubSeq(s, 1, Len(s) - 1)) + DigitVal(s[Len(s)])

RECURSIVE Pow10(_)
Pow10(n) == IF n = 0 THEN 1 ELSE 10 * Pow10(n - 1)

\* ------------------------------------------------------------------------
\* The retry hint: re.search(r'try again in (\d+)m?([\d.]+)?s?', error_str)
\* ------------------------------------------------------------------------
TryAgainIn == <<"t", "r", "y", " ", "a", "g", "a", "i", "n", " ", "i", "n", " ">>

\* first index >= p whose character is not in the class (greedy repetition)
RECURSIVE SpanEnd(_, _, _)
SpanEnd(s, p, class) ==
    IF p <= Len(s) /\ s[p] \in class THEN SpanEnd(s, p + 1, class) ELSE p

DigitChars == {Digits[k] : k \in 1..10}
DigitOrDotChars == DigitChars \cup {"."}

\* The match of the regular expression (matched = FALSE: no match).  Every
\* element after (\d+) is optional, so the leftmost match is the greedy scan
\* from the first place where the literal is followed by a digit.  group2 is
\* the empty string when the group did not take part in the match.
wait_match(error_str) ==
    LET starts == {p \in 1..Len(error_str) :
                      /\ MatchesAt(error_str, p, TryAgainIn)
                      /\ p + Len(TryAgainIn) <= Len(error_str)
                      /\ IsDigit(error_str[p + Len(TryAgainIn)])}
    IN  IF starts = {}
        THEN [matched |-> FALSE, group1 |-> <<>>, group2 |-> <<>>]
        ELSE LET p0 == CHOOSE p \in starts : \A q \in starts : p <= q
                 a  == p0 + Len(TryAgainIn)
                 b  == SpanEnd(error_str, a, DigitChars)
                 c  == IF b <= Len(error_str) /\ error_str[b] = "m" THEN b + 1 ELSE b
                 d  == SpanEnd(error_str, c, DigitOrDotChars)
             IN  [matched |-> TRUE,
                  group1 |-> SubSeq(error_str, a, b - 1),
                  group2 |-> SubSeq(error_str, c, d - 1)]

\* float(s) for s made of digits and dots: a value num/den, or ValueError
DotCount(s) == Cardinality({k \in 1..Len(s) : s[k] = "."})
FloatOK(s) == DotCount(s) <= 1 /\ \E k \in 1..Len(s) : IsDigit(s[k])
ParseFloat(s) ==
    LET dotAt == IF DotCount(s) = 0 THEN Len(s) + 1
                 ELSE CHOOSE k \in 1..Len(s) : s[k] = "."
        whole == SubSeq(s, 1, dotAt - 1)
        frac  == SubSeq(s, dotAt + 1, Len(s))
    IN  [num |-> ParseInt(whole) * Pow10(Len(frac)) + ParseInt(frac),
         den |-> Pow10(Len(frac))]

\* "429" in error_str or "rate_limit" in error_str.lower()
IsRateLimit(error_str) ==
    \/ Contains(error_str, <<"4", "2", "9">>)
    \/ Contains(Lower(error_str),
                <<"r", "a", "t", "e", "_", "l", "i", "m", "i", "t">>)

ValueErrorMsg(s) ==
    <<"c", "o", "u", "l", "d", " ", "n", "o", "t", " ", "c", "o", "n", "v",
      "e", "r", "t", " ", "s", "t", "r", "i", "n", "g", " ", "t", "o", " ",
      "f", "l", "o", "a", "t", ":", " ", "'">> \o s \o <<"'">>

\* minutes * 60 + seconds + 5
wait_time_hint(m) ==
    LET minutes == ParseInt(m.group1)
        seconds == IF m.group2 = <<>> THEN [num |-> 0, den |-> 1]
                   ELSE ParseFloat(m.group2)
    IN  [num |-> (minutes * 60 + 5) * seconds.den + seconds.num,
         den |-> seconds.den]

\* mutant: the fallback back-off does not grow with the attempt
wait_time_fallback_mut(attempt) == [num |-> 60, den |-> 1]

\* 60 * (attempt + 1)
wait_time_fallback(attempt) == [num |-> 60 * (attempt + 1), den |-> 1]

\* mutant: every error is followed by a sleep and a retry, without limit
on_error_mut(error_str, attempt) ==
    [do |-> "sleep", err |-> error_str,
     wait |-> Some(wait_time_fallback(attempt))]

\* The except-branch of _transcribe_single for error e on attempt `attempt`:
\* what the handler does next.
\*   [do |-> "sleep", wait |-> w]   time.sleep(w); continue
\*   [do |-> "raise", err |-> e2]   the exception that leaves the function
on_error(error_str, attempt) ==
    IF IsRateLimit(error_str)
    THEN LET m == wait_match(error_str)
         IN  IF m.matched /\ m.group2 # <<>> /\ ~FloatOK(m.group2)
             THEN [do |-> "raise", err |-> ValueErrorMsg(m.group2), wait |-> None]
             ELSE LET w == IF m.matched THEN wait_time_hint(m)
                           ELSE wait_time_fallback(attempt)
                  IN  IF attempt < max_retries
                      THEN [do |-> "sleep", err |-> error_str, wait |-> Some(w)]
                      ELSE [do |-> "raise", err |-> error_str, wait |-> Some(w)]
    ELSE [do |-> "raise", err |-> error_str, wait |-> None]

\* ------------------------------------------------------------------------
\* What the environment can answer
\* ------------------------------------------------------------------------
\* len(audio_data): below, at and above the threshold
FileSizes == {MAX_FILE_SIZE - 1, MAX_FILE_SIZE, MAX_FILE_SIZE + 1}

\* _get_audio_duration: None, or a duration in (whole) seconds; for every
\* k in 1..MaxChunks the shortest and the longest duration giving k ranges
ProbeResults ==
    {None, Some(0)}
    \cup {Some((k - 1) * CHUNK_DURATION + 1) : k \in 1..MaxChunks}
    \cup {Some(k * CHUNK_DURATION) : k \in 1..MaxChunks}

\* one run of ffmpeg: it raises (timeout, launch failure) or exits, and the
\* output file exists or not afterwards
ExtractionOutcomes ==
    {[raises |-> FALSE, returncode |-> 0, exists |-> TRUE],
     [raises |-> FALSE, returncode |-> 0, exists |-> FALSE],
     [raises |-> FALSE, returncode |-> 1, exists |-> TRUE],
     [raises |-> FALSE, returncode |-> 1, exists |-> FALSE],
     [raises |-> TRUE, returncode |-> 1, exists |-> TRUE],
     [raises |-> TRUE, returncode |-> 1, exists |-> FALSE]}

\* the transcript of the segment at position i of the submitted list
SegText(i) == <<"s">> \o Str(i)

\* <<getattr(response, "language", "unknown"), getattr(response, "duration", None)>>:
\* the language is missing or one of two languages, the duration is missing,
\* zero or positive (in seconds)
ProviderReports ==
    {<<"unknown", None>>, <<"unknown", Some(10)>>, <<"zh", Some(0)>>,
     <<"en", Some(10)>>}

\* error messages of the provider: a server error, a rate limit without a
\* hint, a rate limit with the hint "try again in 1m30s" (a message of more
\* than 50 characters, as the provider's are)
E500 == <<"5", "0", "0">>
E429 == <<"4", "2", "9">>
EHint == <<"R", "a", "t", "e", "_", "l", "i", "m", "i", "t", " ">>
         \o TryAgainIn \o <<"1", "m", "3", "0", "s">>
         \o <<".", " ", "N", "e", "e", "d", " ", "m", "o", "r", "e", " ",
              "t", "o", "k", "e", "n", "s", "?", " ", "U", "p", "g", "r",
              "a", "d", "e">>
ProviderErrors == {E500, E429, EHint}

\* ------------------------------------------------------------------------
\* State
\* ------------------------------------------------------------------------
VARIABLES
    pc,                 \* position of transcribe() / _split_audio()
    file_size,          \* len(audio_data)
    files,              \* temporary files and directories that exist on disk
    duration,           \* _split_audio: probed duration
    num_chunks,         \* _split_audio: number of ranges
    loop_i,             \* _split_audio: loop index i
    chunks,             \* _split_audio: chunks
    chunk_paths,        \* transcribe: chunk_paths
    chunks_to_cleanup,  \* transcribe: chunks_to_cleanup
    seg,                \* per submitted segment: the _transcribe_single call
    results,            \* transcribe: results
    ret,                \* the value transcribe returns
    exc,                \* the exception transcribe raises
    b_msg,              \* retry-hint specification: error message
    b_attempt,          \* retry-hint specification: attempt
    b_out,              \* retry-hint specification: what the handler does
    extract_log,        \* _split_audio: the ffmpeg commands run so far
    split_how,          \* which return statement ended _split_audio
    d_text,             \* split_for_line: text, as the lengths of its lines
    d_parts,            \* split_for_line: the list returned
    today,              \* app: position of the current date in Calendar
    sessions,           \* PasswordManager._authenticated_users
    handler,            \* app: the webhook event being handled
    handled,            \* app: number of webhook events received
    units,              \* app: the process_audio_async threads started
    p_run,              \* _get_audio_duration: what the ffprobe run does
    p_ret,              \* _get_audio_duration: <<value returned>>
    p_exc               \* _get_audio_duration: the exception that leaves it

vars == <<pc, file_size, files, duration, num_chunks, loop_i, chunks,
          chunk_paths, chunks_to_cleanup, seg, results, ret, exc,
          b_msg, b_attempt, b_out, extract_log, split_how,
          d_text, d_parts, today, sessions, handler, handled, units,
          p_run, p_ret, p_exc>>

\* the variables of TranscriptionService.transcribe and _split_audio
t_vars == <<pc, file_size, files, duration, num_chunks, loop_i, chunks,
            chunk_paths, chunks_to_cleanup, seg, results, ret, exc,
            extract_log, split_how>>

doc_vars == <<d_text, d_parts>>

app_vars == <<today, sessions, handler, handled, units>>

probe_vars == <<p_run, p_ret, p_exc>>

\* no call of _get_audio_duration is under way
ProbeIdle == p_run = None /\ p_ret = <<>> /\ p_exc = None

Users == {"u1", "u2"}

IdleHandler ==
    [st |-> "idle", kind |-> "none", user |-> "none", authed |-> FALSE,
     reply |-> "none", file_ext |-> None, unit |-> 0]

\* the application has just been started: no session, no event, no thread
AppIdle ==
    /\ today = 1
    /\ sessions = [u \in Users |-> None]
    /\ handler = IdleHandler
    /\ handled = 0
    /\ units = <<>>

\* no call of split_for_line is under way
DocIdle == d_text = <<>> /\ d_parts = None

split_vars == <<duration, num_chunks, loop_i, chunks, extract_log>>
b_vars == <<b_msg, b_attempt, b_out>>

temp_path == <<"blob", 0>>
temp_dir == <<"dir", 0>>
output_path(i) == <<"chunk", i>>
IsChunkFile(p) == p[1] = "chunk"

Indices == DOMAIN seg
NoSegments == [i \in {} |-> 0]
\* st: queued, running (a request is due or in flight), sleeping (back-off),
\* returned, raised; order: 0 until the future is collected, then its rank in
\* the order of collection
\* client: the provider client the call created (0 before it starts),
\* clients being numbered in the order of their creation and the client of
\* the service (self.client, line 42) being number 1; used: the clients the
\* requests of the call went through
Queued == [st |-> "queued", attempt |-> 0, wait |-> None, err |-> <<>>,
           result |-> None, order |-> 0, client |-> 0, used |-> {}]

\* line 42: self.client = Groq(api_key=self.api_key), the first client made
self_client == 1

\* self.client and the clients of the calls started so far
ClientsCreated == self_client + Cardinality({i \in Indices : seg[i].client # 0})

\* mutant: the call takes the client of the service
NewClient_mut == self_client

\* line 154: client = Groq(api_key=self.api_key)
NewClient == ClientsCreated + 1

Init ==
    /\ pc = "start"
    /\ file_size \in FileSizes
    /\ files = {}
    /\ duration = None
    /\ num_chunks = 0
    /\ loop_i = 0
    /\ chunks = <<>>
    /\ chunk_paths = <<>>
    /\ chunks_to_cleanup = <<>>
    /\ seg = NoSegments
    /\ results = <<>>
    /\ ret = None
    /\ exc = None
    /\ b_msg = <<>>
    /\ b_attempt = 0
    /\ b_out = None
    /\ extract_log = <<>>
    /\ split_how = "not_called"
    /\ DocIdle
    /\ AppIdle
    /\ ProbeIdle

\* ------------------------------------------------------------------------
\* transcribe(): staging and the decision to split (lines 224-246)
\* ------------------------------------------------------------------------
Stage ==
    /\ pc = "start"
    /\ files' = files \cup {temp_path}
    /\ pc' = "staged"
    /\ UNCHANGED <<app_vars, doc_vars, probe_vars, file_size, split_how, split_vars, chunk_paths, chunks_to_cleanup, seg,
                   results, ret, exc, b_vars>>

\* mutant: a blob of exactly the threshold is split too
NeedsSplit_mut(size) == size >= MAX_FILE_SIZE

\* line 239
NeedsSplit(size) == size > MAX_FILE_SIZE

Decide ==
    /\ pc = "staged"
    /\ IF NeedsSplit(file_size)
       THEN /\ pc' = "split_mkdtemp"
            /\ UNCHANGED chunk_paths
       ELSE /\ pc' = "dispatch"
            /\ chunk_paths' = <<temp_path>>
    /\ UNCHANGED <<app_vars, doc_vars, probe_vars, file_size, split_how, files, split_vars, chunks_to_cleanup, seg,
                   results, ret, exc, b_vars>>

\* ------------------------------------------------------------------------
\* _split_audio (lines 63-139)
\* ------------------------------------------------------------------------
\* mutant: a last, shorter range is not counted
NumChunks_mut(d, chunk_duration) == d \div chunk_duration

\* int(duration // chunk_duration) + (1 if duration % chunk_duration > 0 else 0)
NumChunks(d, chunk_duration) ==
    (d \div chunk_duration) + (IF d % chunk_duration > 0 THEN 1 ELSE 0)

SplitMkdtemp ==
    /\ pc = "split_mkdtemp"
    /\ files' = files \cup {temp_dir}
    /\ chunks' = <<>>
    /\ extract_log' = <<>>
    /\ pc' = "split_probe"
    /\ UNCHANGED <<app_vars, doc_vars, probe_vars, file_size, split_how, duration, num_chunks, loop_i, chunk_paths,
                   chunks_to_cleanup, seg, results, ret, exc, b_vars>>

\* mutant: the early return hands back the original file twice
OriginalOnly_mut == <<temp_path, temp_path>>

\* [file_path], what the lines 81, 89, 135 and 139 return
OriginalOnly == <<temp_path>>

\* lines 78-89: probe, count, and the early returns of the original file
SplitProbe ==
    /\ pc = "split_probe"
    /\ \E d \in ProbeResults :
         /\ duration' = d
         /\ IF d = None \/ The(d) = 0
            THEN /\ num_chunks' = 0
                 /\ chunks' = OriginalOnly
                 /\ split_how' = IF d = None THEN "probe_absent"
                                  ELSE "probe_zero"
                 /\ pc' = "split_return"
            ELSE /\ num_chunks' = NumChunks(The(d), CHUNK_DURATION)
                 /\ IF NumChunks(The(d), CHUNK_DURATION) = 1
                    THEN /\ chunks' = OriginalOnly
                         /\ split_how' = "one_chunk"
                         /\ pc' = "split_return"
                    ELSE /\ chunks' = <<>>
                         /\ split_how' = "loop"
                         /\ pc' = "split_copy"
    /\ loop_i' = 0
    /\ UNCHANGED <<app_vars, doc_vars, probe_vars, file_size, extract_log, files, chunk_paths, chunks_to_cleanup, seg,
                   results, ret, exc, b_vars>>

\* one ffmpeg run: -ss start_time -t chunk_duration, with '-c copy' or
\* with '-c:a aac -b:a 64k'
Command(i, mode, o) ==
    [i |-> i, ss |-> i * CHUNK_DURATION, t |-> CHUNK_DURATION, mode |-> mode,
     ok |-> ~o.raises /\ o.returncode = 0 /\ o.exists]

FilesAfter(o, p) == IF o.exists THEN files \cup {p} ELSE files \ {p}

\* mutant: the exit code alone decides
Extracted_mut(o) == ~o.raises /\ o.returncode = 0

Extracted(o) == ~o.raises /\ o.returncode = 0 /\ o.exists

\* lines 99-118: stream copy of range loop_i
SplitCopy ==
    /\ pc = "split_copy"
    /\ loop_i < num_chunks
    /\ \E o \in ExtractionOutcomes :
         /\ files' = FilesAfter(o, output_path(loop_i))
         /\ extract_log' = Append(extract_log, Command(loop_i, "copy", o))
         /\ IF o.raises
            THEN /\ loop_i' = loop_i + 1
                 /\ UNCHANGED <<chunks, pc>>
            ELSE IF Extracted(o)
            THEN /\ chunks' = Append(chunks, output_path(loop_i))
                 /\ loop_i' = loop_i + 1
                 /\ UNCHANGED pc
            ELSE /\ pc' = "split_reencode"
                 /\ UNCHANGED <<chunks, loop_i>>
    /\ UNCHANGED <<app_vars, doc_vars, probe_vars, file_size, split_how, duration, num_chunks, chunk_paths,
                   chunks_to_cleanup, seg, results, ret, exc, b_vars>>

\* lines 119-133: re-encoding of range loop_i
SplitReencode ==
    /\ pc = "split_reencode"
    /\ \E o \in ExtractionOutcomes :
         /\ files' = FilesAfter(o, output_path(loop_i))
         /\ extract_log' = Append(extract_log, Command(loop_i, "reencode", o))
         /\ chunks' = IF Extracted(o) THEN Append(chunks, output_path(loop_i))
                      ELSE chunks
    /\ loop_i' = loop_i + 1
    /\ pc' = "split_copy"
    /\ UNCHANGED <<app_vars, doc_vars, probe_vars, file_size, split_how, duration, num_chunks, chunk_paths,
                   chunks_to_cleanup, seg, results, ret, exc, b_vars>>

\* line 135: return chunks if chunks else [file_path]
SplitLoopEnd ==
    /\ pc = "split_copy"
    /\ loop_i >= num_chunks
    /\ chunks' = IF chunks # <<>> THEN chunks ELSE OriginalOnly
    /\ split_how' = IF chunks # <<>> THEN "extracted" ELSE "all_failed"
    /\ pc' = "split_return"
    /\ UNCHANGED <<app_vars, doc_vars, probe_vars, file_size, extract_log, files, duration, num_chunks, loop_i, chunk_paths,
                   chunks_to_cleanup, seg, results, ret, exc, b_vars>>

\* [p for p in chunk_paths if p != temp_path]
WithoutTempPath(paths) == SelectSeq(paths, LAMBDA p : p # temp_path)

\* lines 241-242: the splitter returns; its locals are gone
SplitReturn ==
    /\ pc = "split_return"
    /\ chunk_paths' = chunks
    /\ chunks_to_cleanup' = WithoutTempPath(chunks)
    /\ duration' = None
    /\ num_chunks' = 0
    /\ loop_i' = 0
    /\ chunks' = <<>>
    /\ extract_log' = <<>>
    /\ pc' = "dispatch"
    /\ UNCHANGED <<app_vars, doc_vars, probe_vars, file_size, split_how, files, seg, results, ret, exc, b_vars>>

\* ------------------------------------------------------------------------
\* transcribe(): dispatch (lines 246-264, 284-286)
\* ------------------------------------------------------------------------
\* total_chunks > 1: every segment is submitted to the pool, in list order;
\* otherwise _transcribe_single(chunk_paths[0], 0, 1) runs in the caller
\* mutant: two segments still go through the single-segment path
UsePool_mut(total_chunks) == total_chunks > 2

\* line 249
UsePool(total_chunks) == total_chunks > 1

Dispatch ==
    /\ pc = "dispatch"
    /\ LET total_chunks == Len(chunk_paths)
       IN  IF UsePool(total_chunks)
           THEN /\ seg' = [i \in 0..(total_chunks - 1) |-> Queued]
                /\ pc' = "collect"
           ELSE /\ seg' = [i \in {0} |-> [Queued EXCEPT !.st = "running",
                                                         !.client = NewClient]]
                /\ pc' = "single"
    /\ results' = <<>>
    /\ UNCHANGED <<app_vars, doc_vars, probe_vars, file_size, split_how, files, split_vars, chunk_paths,
                   chunks_to_cleanup, ret, exc, b_vars>>

\* ------------------------------------------------------------------------
\* _transcribe_single (lines 141-205), one call per segment
\* ------------------------------------------------------------------------
Occupied(i) == seg[i].st \in {"running", "sleeping"}
Terminal(i) == seg[i].st \in {"returned", "raised"}
Collected(i) == seg[i].order > 0
Busy == {i \in Indices : Occupied(i)}

\* mutant: the pool has a third worker
FreeWorker_mut == Cardinality(Busy) < MAX_WORKERS + 1

\* ThreadPoolExecutor(max_workers=MAX_WORKERS): a worker is free
FreeWorker == Cardinality(Busy) < MAX_WORKERS

\* a free worker takes the oldest queued call
Start(i) ==
    /\ pc = "collect"
    /\ seg[i].st = "queued"
    /\ \A j \in Indices : j < i => seg[j].st # "queued"
    /\ FreeWorker
    /\ seg' = [seg EXCEPT ![i].st = "running", ![i].attempt = 0,
                          ![i].client = NewClient]
    /\ UNCHANGED <<app_vars, doc_vars, probe_vars, pc, file_size, split_how, files, split_vars, chunk_paths,
                   chunks_to_cleanup, results, ret, exc, b_vars>>

\* lines 177-182
Response(i, language, dur) ==
    [index |-> i, text |-> SegText(i), language |-> language, duration |-> dur]

\* on_error for each error message of the provider and each attempt
on_error_table ==
    [e \in ProviderErrors, attempt \in 0..max_retries |-> on_error(e, attempt)]

\* lines 164-205: one provider request of the loop and what follows it
Request(i) ==
    /\ pc \in {"collect", "single"}
    /\ seg[i].st = "running"
    /\ seg[i].attempt \in 0..max_retries
    /\ \/ \E r \in ProviderReports :
            seg' = [seg EXCEPT ![i] = [Queued EXCEPT
                        !.st = "returned",
                        !.result = Some(Response(i, r[1], r[2])),
                        !.client = seg[i].client,
                        !.used = seg[i].used \cup {seg[i].client}]]
       \/ \E e \in ProviderErrors :
            LET h == on_error_table[e, seg[i].attempt]
            IN  seg' = [seg EXCEPT ![i] =
                    IF h.do = "sleep"
                    THEN [seg[i] EXCEPT !.st = "sleeping", !.wait = h.wait,
                                        !.err = h.err,
                                        !.used = @ \cup {seg[i].client}]
                    ELSE [Queued EXCEPT !.st = "raised", !.err = h.err,
                                        !.client = seg[i].client,
                                        !.used = seg[i].used \cup {seg[i].client}]]
    /\ UNCHANGED <<app_vars, doc_vars, probe_vars, pc, file_size, split_how, files, split_vars, chunk_paths,
                   chunks_to_cleanup, results, ret, exc, b_vars>>

\* lines 200-201: time.sleep(wait_time) returns; continue
Wake(i) ==
    /\ pc \in {"collect", "single"}
    /\ seg[i].st = "sleeping"
    /\ seg' = [seg EXCEPT ![i] = [Queued EXCEPT
                   !.st = "running", !.attempt = seg[i].attempt + 1,
                   !.client = seg[i].client, !.used = seg[i].used]]
    /\ UNCHANGED <<app_vars, doc_vars, probe_vars, pc, file_size, split_how, files, split_vars, chunk_paths,
                   chunks_to_cleanup, results, ret, exc, b_vars>>

\* ------------------------------------------------------------------------
\* transcribe(): collection (lines 266-282)
\* ------------------------------------------------------------------------
\* mutant: the marker numbers the segments from 0
FailedText_mut(chunk_index, e) ==
    <<"[", "C", "h", "u", "n", "k", " ">> \o Str(chunk_index)
    \o <<" ", "f", "a", "i", "l", "e", "d", ":", " ">> \o Take(e, 50) \o <<"]">>

\* f"[Chunk {chunk_index + 1} failed: {str(e)[:50]}]"
FailedText(chunk_index, e) ==
    <<"[", "C", "h", "u", "n", "k", " ">> \o Str(chunk_index + 1)
    \o <<" ", "f", "a", "i", "l", "e", "d", ":", " ">> \o Take(e, 50) \o <<"]">>

\* mutant: the placeholder carries the 1-based number as its index
Placeholder_mut(chunk_index, e) ==
    [index |-> chunk_index + 1, text |-> FailedText(chunk_index, e),
     language |-> "unknown", duration |-> None]

\* lines 274-279
Placeholder(chunk_index, e) ==
    [index |-> chunk_index, text |-> FailedText(chunk_index, e),
     language |-> "unknown", duration |-> None]

\* as_completed yields a finished future; its result or its placeholder is
\* appended
Collect(i) ==
    /\ pc = "collect"
    /\ Terminal(i)
    /\ ~Collected(i)
    /\ results' = Append(results,
                         IF seg[i].st = "returned" THEN The(seg[i].result)
                         ELSE Placeholder(i, seg[i].err))
    /\ seg' = [seg EXCEPT ![i].order = Len(results) + 1]
    /\ UNCHANGED <<app_vars, doc_vars, probe_vars, pc, file_size, split_how, files, split_vars, chunk_paths,
                   chunks_to_cleanup, ret, exc, b_vars>>

\* results.sort(key=lambda x: x["index"]): a stable insertion sort
RECURSIVE Insert(_, _)
Insert(sorted, r) ==
    IF sorted = <<>> THEN <<r>>
    ELSE IF sorted[Len(sorted)].index <= r.index THEN Append(sorted, r)
    ELSE Append(Insert(SubSeq(sorted, 1, Len(sorted) - 1), r), sorted[Len(sorted)])

RECURSIVE SortRec(_)
SortRec(rs) ==
    IF rs = <<>> THEN <<>>
    ELSE Insert(SortRec(SubSeq(rs, 1, Len(rs) - 1)), rs[Len(rs)])

\* mutant: the results stay in completion order
SortByIndex_mut(rs) == rs

SortByIndex(rs) == SortRec(rs)

\* mutant: the loop stops at the first collected future
AllCollected_mut == \E i \in Indices : Collected(i)

\* as_completed is exhausted: every future was yielded
AllCollected == \A i \in Indices : Collected(i)

\* lines 267-282: the loop and the with-block end, the results are sorted
PoolExit ==
    /\ pc = "collect"
    /\ AllCollected
    /\ results' = SortByIndex(results)
    /\ pc' = "merge"
    /\ UNCHANGED <<app_vars, doc_vars, probe_vars, file_size, split_how, files, split_vars, chunk_paths,
                   chunks_to_cleanup, seg, ret, exc, b_vars>>

\* line 286: the call in the caller returns or raises
SingleExit ==
    /\ pc = "single"
    /\ Terminal(0)
    /\ ~Collected(0)
    /\ IF seg[0].st = "returned"
       THEN /\ results' = <<The(seg[0].result)>>
            /\ pc' = "merge"
            /\ UNCHANGED exc
       ELSE /\ exc' = Some(seg[0].err)
            /\ pc' = "cleanup"
            /\ UNCHANGED results
    /\ seg' = [seg EXCEPT ![0].order = 1]
    /\ UNCHANGED <<app_vars, doc_vars, probe_vars, file_size, split_how, files, split_vars, chunk_paths,
                   chunks_to_cleanup, ret, b_vars>>

\* ------------------------------------------------------------------------
\* transcribe(): merge (lines 288-308)
\* ------------------------------------------------------------------------
\* mutant: the texts are joined with one newline
Separator_mut == <<"\n">>

Separator == <<"\n", "\n">>

\* sep.join(texts)
RECURSIVE Join(_, _)
Join(texts, sep) ==
    IF texts = <<>> THEN <<>>
    ELSE IF Len(texts) = 1 THEN texts[1]
    ELSE texts[1] \o sep \o Join(Tail(texts), sep)

\* mutant: only the first segment's duration is counted
TotalDuration_mut(rs) ==
    IF rs = <<>> \/ rs[1].duration = None THEN 0 ELSE The(rs[1].duration)

\* sum(r.get("duration") or 0 for r in results)
RECURSIVE TotalDuration(_)
TotalDuration(rs) ==
    IF rs = <<>> THEN 0
    ELSE (IF rs[1].duration = None THEN 0 ELSE The(rs[1].duration))
         + TotalDuration(Tail(rs))

\* mutant: the last known language wins
DetectedLanguage_mut(rs) ==
    LET known == {k \in 1..Len(rs) : rs[k].language # "unknown"}
    IN  IF known = {} THEN "unknown"
        ELSE rs[CHOOSE k \in known : \A j \in known : k >= j].language

\* next((r["language"] for r in results if r.get("language") != "unknown"), "unknown")
DetectedLanguage(rs) ==
    LET known == {k \in 1..Len(rs) : rs[k].language # "unknown"}
    IN  IF known = {} THEN "unknown"
        ELSE rs[CHOOSE k \in known : \A j \in known : k <= j].language

Aggregate(rs) ==
    LET total_duration == TotalDuration(rs)
    IN  [text |-> Join([k \in 1..Len(rs) |-> rs[k].text], Separator),
         language |-> DetectedLanguage(rs),
         duration |-> IF total_duration > 0 THEN Some(total_duration) ELSE None]

Merge ==
    /\ pc = "merge"
    /\ ret' = Some(Aggregate(results))
    /\ pc' = "cleanup"
    /\ UNCHANGED <<app_vars, doc_vars, probe_vars, file_size, split_how, files, split_vars, chunk_paths,
                   chunks_to_cleanup, seg, results, exc, b_vars>>

\* ------------------------------------------------------------------------
\* transcribe(): the finally block (lines 314-332)
\* ------------------------------------------------------------------------
SeqToSet(q) == {q[k] : k \in 1..Len(q)}

\* temp_path.unlink(); chunk.unlink() for each chunk; chunk.parent.rmdir(),
\* which fails (and is ignored) while the directory is not empty
AfterCleanup(fs, to_cleanup) ==
    LET unlinked == (fs \ {temp_path}) \ SeqToSet(to_cleanup)
    IN  IF to_cleanup # <<>> /\ ~\E p \in unlinked : IsChunkFile(p)
        THEN unlinked \ {temp_dir}
        ELSE unlinked

Cleanup ==
    /\ pc = "cleanup"
    /\ files' = AfterCleanup(files, chunks_to_cleanup)
    /\ pc' = IF exc = None THEN "returned" ELSE "raised"
    /\ UNCHANGED <<app_vars, doc_vars, probe_vars, file_size, split_how, split_vars, chunk_paths, chunks_to_cleanup, seg,
                   results, ret, exc, b_vars>>

Next ==
    \/ Stage
    \/ Decide
    \/ SplitMkdtemp
    \/ SplitProbe
    \/ SplitCopy
    \/ SplitReencode
    \/ SplitLoopEnd
    \/ SplitReturn
    \/ Dispatch
    \/ \E i \in Indices : Start(i)
    \/ \E i \in Indices : Request(i)
    \/ \E i \in Indices : Wake(i)
    \/ \E i \in Indices : Collect(i)
    \/ PoolExit
    \/ SingleExit
    \/ Merge
    \/ Cleanup

Spec == Init /\ [][Next]_vars

\* ------------------------------------------------------------------------
\* The except-branch of _transcribe_single alone (lines 184-205), on every
\* short message "<prefix> try again in <text>" and every attempt
\* ------------------------------------------------------------------------
HintAlphabet == {"0", "1", "3", ".", "m", "s"}
HintTexts == UNION {[1..n -> HintAlphabet] : n \in 0..MaxHintLen}
HintPrefixes == {E429 \o <<" ">>, E500 \o <<" ">>}
HintMessages == {p \o TryAgainIn \o h : p \in HintPrefixes, h \in HintTexts}

HintInit ==
    /\ pc = "except"
    /\ file_size = 0
    /\ files = {}
    /\ duration = None
    /\ num_chunks = 0
    /\ loop_i = 0
    /\ chunks = <<>>
    /\ chunk_paths = <<>>
    /\ chunks_to_cleanup = <<>>
    /\ seg = NoSegments
    /\ results = <<>>
    /\ ret = None
    /\ exc = None
    /\ b_msg \in HintMessages
    /\ b_attempt \in 0..max_retries
    /\ b_out = None
    /\ extract_log = <<>>
    /\ split_how = "not_called"
    /\ DocIdle
    /\ AppIdle
    /\ ProbeIdle

Except ==
    /\ pc = "except"
    /\ b_out = None
    /\ b_out' = Some(on_error(b_msg, b_attempt))
    /\ UNCHANGED <<app_vars, doc_vars, probe_vars, pc, file_size, split_how, files, split_vars, chunk_paths,
                   chunks_to_cleanup, seg, results, ret, exc, b_msg, b_attempt>>

HintNext == Except

HintSpec == HintInit /\ [][HintNext]_vars

\* ------------------------------------------------------------------------
\* Properties
\* ------------------------------------------------------------------------
N == Cardinality(Indices)
PoolCall == Len(chunk_paths) > 1
Leaving == pc \in {"cleanup", "returned", "raised"}
Exited == pc \in {"returned", "raised"}
SplitPcs == {"split_mkdtemp", "split_probe", "split_copy", "split_reencode",
             "split_return"}

\* the text segment i ended with: the provider's, or the failure marker
OutcomeText(i) ==
    IF seg[i].st = "returned" THEN The(seg[i].result).text
    ELSE FailedText(i, seg[i].err)

Seconds(w, k) == w # None /\ The(w).num = k * The(w).den

\* C1: in a multi-segment call, whatever the order in which the segments
\* completed and were collected, the returned text is the per-segment texts
\* (transcript or failure marker) joined in ascending index with "\n\n".
C1_MergedTextInIndexOrder ==
    (PoolCall /\ pc \in {"cleanup", "returned"}) =>
        /\ ret # None
        /\ The(ret).text = Join([k \in 1..N |-> OutcomeText(k - 1)], Separator)

\* three segments, collected out of index order, one of them failed
C1_Witness ==
    /\ pc = "returned"
    /\ N >= 3
    /\ \E i, j \in Indices : i < j /\ seg[i].order > seg[j].order
    /\ \E i \in Indices : seg[i].st = "raised"
    /\ \E i \in Indices : seg[i].st = "returned"

\* C2: when the collection of a multi-segment call has finished, results
\* holds exactly one entry per index 0..N-1: the provider's result of a
\* segment that succeeded, else a placeholder with the same index, language
\* "unknown" and no duration.
C2_OneEntryPerIndex ==
    (PoolCall /\ (pc \in {"merge", "cleanup", "returned"}
                  \/ (pc = "collect" /\ AllCollected))) =>
        /\ Len(results) = N
        /\ Indices = 0..(Len(chunk_paths) - 1)
        /\ \A i \in Indices :
             /\ Cardinality({k \in 1..Len(results) : results[k].index = i}) = 1
             /\ \A k \in 1..Len(results) :
                  results[k].index = i =>
                      IF seg[i].st = "returned"
                      THEN results[k] = The(seg[i].result)
                      ELSE /\ results[k].language = "unknown"
                           /\ results[k].duration = None

\* the collection finished out of order with a success and a failure
C2_Witness ==
    /\ pc = "collect"
    /\ AllCollected
    /\ N >= 3
    /\ results[1].index > results[2].index
    /\ \E i \in Indices : seg[i].st = "raised"
    /\ \E i \in Indices : seg[i].st = "returned"

\* C3 as stated: whenever a segment failed, whatever the number of segments,
\* transcribe returns an aggregate holding the failure marker and does not
\* raise.
C3_NeverRaisesOnSegmentFailure ==
    (Leaving /\ \E i \in Indices : seg[i].st = "raised") =>
        /\ exc = None
        /\ ret # None
        /\ \A i \in Indices :
             seg[i].st = "raised" =>
                 Contains(The(ret).text, FailedText(i, seg[i].err))

\* C3 amended: with two or more segments a failed segment never fails the
\* call, the aggregate holds its failure marker (also when every segment
\* failed); with exactly one segment its failure is raised to the caller and
\* nothing is returned.
C3_Amended ==
    Leaving =>
        IF PoolCall
        THEN /\ exc = None
             /\ pc # "raised"
             /\ ret # None
             /\ \A i \in Indices :
                  seg[i].st = "raised" =>
                      Contains(The(ret).text, FailedText(i, seg[i].err))
        ELSE /\ N = 1
             /\ seg[0].st = "raised" =>
                    (ret = None /\ exc = Some(seg[0].err) /\ pc # "returned")
             /\ seg[0].st = "returned" => (exc = None /\ pc # "raised")

\* a multi-segment call returned although every segment failed
C3_Witness ==
    /\ pc = "returned"
    /\ PoolCall
    /\ \A i \in Indices : seg[i].st = "raised"

\* C4: a segment gets at most 4 requests; a further request follows only a
\* rate-limit failure (the message contains "429" or, in any case of
\* letters, "rate_limit") and the end of its back-off sleep; a sleep follows
\* only a rate-limit failure of one of the first 3 requests; a segment that
\* returned or raised gets no further request and no further sleep.
C4_RetryPolicy ==
    [][\A i \in 0..MaxChunks :
         (i \in DOMAIN seg /\ i \in DOMAIN seg') =>
            /\ seg[i].st = "running" => seg[i].attempt + 1 <= 4
            /\ (seg'[i].st = "running" /\ seg'[i] # seg[i] /\ seg[i].st # "queued") =>
                   /\ seg[i].st = "sleeping"
                   /\ IsRateLimit(seg[i].err)
                   /\ seg'[i].attempt = seg[i].attempt + 1
            /\ (seg'[i].st = "sleeping" /\ seg'[i] # seg[i]) =>
                   /\ seg[i].st = "running"
                   /\ IsRateLimit(seg'[i].err)
                   /\ seg[i].attempt + 1 < 4
            /\ Terminal(i) =>
                   /\ seg'[i].st = seg[i].st
                   /\ seg'[i].attempt = seg[i].attempt
      ]_vars

\* a segment failed on a rate-limit error: the 4th request was rate limited
C4_Witness ==
    \E i \in Indices : seg[i].st = "raised" /\ IsRateLimit(seg[i].err)

\* C5: at most 2 segments are held by workers (running or sleeping in
\* back-off) at any time, whatever the number of segments.
C5_AtMostTwoWorkers == Cardinality(Busy) <= 2

\* two workers are occupied, one of them sleeping, and a segment waits
C5_Witness ==
    /\ Cardinality(Busy) = 2
    /\ \E i \in Indices : seg[i].st = "sleeping"
    /\ \E i \in Indices : seg[i].st = "queued"

\* C6 as stated: when transcribe has exited, no temporary file or directory
\* of the call is left.
C6_AllTemporaryStorageReleased == Exited => files = {}

\* C7 as stated: a blob of at most MAX_FILE_SIZE bytes is never split or
\* probed, is transcribed as the single segment 0, and the text, language
\* and duration of that segment are returned unchanged.
C7_SingleResultVerbatim ==
    (file_size <= MAX_FILE_SIZE) =>
        /\ pc \notin SplitPcs
        /\ temp_dir \notin files
        /\ Indices \subseteq {0}
        /\ pc = "returned" =>
               LET r == The(seg[0].result)
               IN  /\ r.index = 0
                   /\ ret = Some([text |-> r.text, language |-> r.language,
                                  duration |-> r.duration])

\* C7 amended: as stated, except that a reported duration of 0 is returned
\* as absent.
C7_Amended ==
    (file_size <= MAX_FILE_SIZE) =>
        /\ pc \notin SplitPcs
        /\ temp_dir \notin files
        /\ Indices \subseteq {0}
        /\ pc = "returned" =>
               LET r == The(seg[0].result)
               IN  /\ r.index = 0
                   /\ ret = Some([text |-> r.text, language |-> r.language,
                                  duration |-> IF r.duration = Some(0) THEN None
                                               ELSE r.duration])

\* a blob of exactly the threshold returned a positive duration
C7_Witness ==
    /\ file_size = MAX_FILE_SIZE
    /\ pc = "returned"
    /\ The(seg[0].result).duration = Some(10)
    /\ The(ret).duration = Some(10)

\* C8: a multi-segment call is merging, cleaning up or gone only when every
\* submitted segment has returned or raised: none is queued, running or
\* sleeping.
C8_NoEarlyReturn ==
    (PoolCall /\ pc \in {"merge", "cleanup", "returned", "raised"}) =>
        /\ N = Len(chunk_paths)
        /\ \A i \in Indices : Terminal(i)

\* the call merges after a success, a failure and an exhausted retry
C8_Witness ==
    /\ pc = "merge"
    /\ \E i \in Indices : seg[i].st = "returned"
    /\ \E i \in Indices : seg[i].st = "raised" /\ ~IsRateLimit(seg[i].err)
    /\ \E i \in Indices : seg[i].st = "raised" /\ IsRateLimit(seg[i].err)

\* C9: a worker sleeping before retry n after a rate-limit message without
\* "try again in" sleeps 60*n seconds (n = attempt + 1 = 1, 2, 3); after a
\* message containing "try again in 1m30s" it sleeps 95 seconds on every
\* attempt.
C9_BackoffSeconds ==
    \A i \in Indices :
        seg[i].st = "sleeping" =>
            /\ seg[i].attempt + 1 \in 1..3
            /\ ~Contains(seg[i].err, TryAgainIn) =>
                   Seconds(seg[i].wait, 60 * (seg[i].attempt + 1))
            /\ Contains(seg[i].err, TryAgainIn \o <<"1", "m", "3", "0", "s">>) =>
                   Seconds(seg[i].wait, 95)

\* one worker sleeps 180 s before retry 3, the other 95 s before retry 2
C9_Witness ==
    \E i, j \in Indices :
        /\ seg[i].st = "sleeping" /\ seg[i].err = E429 /\ seg[i].attempt = 2
        /\ Seconds(seg[i].wait, 180)
        /\ seg[j].st = "sleeping" /\ seg[j].err = EHint /\ seg[j].attempt = 1
        /\ Seconds(seg[j].wait, 95)

\* The hint forms of C10, read off the text h that follows "try again in ":
\* "<M>m<S>s", "<M>m" and "<S>s", M a whole number, S whole or fractional.
AllDigits(t) == Len(t) > 0 /\ \A k \in 1..Len(t) : IsDigit(t[k])
IsSecondsNumber(t) ==
    \/ AllDigits(t)
    \/ \E k \in 2..(Len(t) - 1) :
          /\ t[k] = "."
          /\ AllDigits(SubSeq(t, 1, k - 1))
          /\ AllDigits(SubSeq(t, k + 1, Len(t)))
HintForm(h) ==
    IF \E k \in 1..Len(h) : h[k] = "m"
    THEN LET k == CHOOSE k \in 1..Len(h) : h[k] = "m"
             M == SubSeq(h, 1, k - 1)
             rest == SubSeq(h, k + 1, Len(h))
         IN  IF AllDigits(M) /\ rest = <<>>
             THEN [ok |-> TRUE, M |-> M, S |-> <<"0">>]
             ELSE IF /\ AllDigits(M) /\ Len(rest) >= 2 /\ rest[Len(rest)] = "s"
                     /\ IsSecondsNumber(SubSeq(rest, 1, Len(rest) - 1))
             THEN [ok |-> TRUE, M |-> M, S |-> SubSeq(rest, 1, Len(rest) - 1)]
             ELSE [ok |-> FALSE, M |-> <<>>, S |-> <<>>]
    ELSE IF /\ Len(h) >= 2 /\ h[Len(h)] = "s"
            /\ IsSecondsNumber(SubSeq(h, 1, Len(h) - 1))
    THEN [ok |-> TRUE, M |-> <<"0">>, S |-> SubSeq(h, 1, Len(h) - 1)]
    ELSE [ok |-> FALSE, M |-> <<>>, S |-> <<>>]

HintOf(msg) == SubSeq(msg, Len(E429) + 1 + Len(TryAgainIn) + 1, Len(msg))

\* C10 as stated: for a rate-limit message whose hint has one of the three
\* forms, the computed back-off is 60*M + S + 5 seconds.
C10_HintedBackoff ==
    (b_out # None /\ IsRateLimit(b_msg) /\ HintForm(HintOf(b_msg)).ok) =>
        LET f == HintForm(HintOf(b_msg))
            S == ParseFloat(f.S)
            w == The(b_out).wait
        IN  /\ w # None
            /\ The(w).num * S.den
                 = ((60 * ParseInt(f.M) + 5) * S.den + S.num) * The(w).den


\* what segment i reported: a failed segment reports no language, no duration
OutcomeLanguage(i) ==
    IF seg[i].st = "returned" THEN The(seg[i].result).language ELSE "unknown"
OutcomeDuration(i) ==
    IF seg[i].st = "returned" THEN The(seg[i].result).duration ELSE None

\* C11: the returned language is the language of the lowest-index segment
\* whose language is not "unknown" (a failed segment counts as "unknown"),
\* and "unknown" when there is none, whatever the order of collection.
C11_LanguageByIndex ==
    (pc \in {"cleanup", "returned"} /\ ret # None) =>
        LET known == {i \in Indices : OutcomeLanguage(i) # "unknown"}
        IN  IF known = {} THEN The(ret).language = "unknown"
            ELSE \E i \in known :
                    /\ \A j \in known : i <= j
                    /\ The(ret).language = OutcomeLanguage(i)

\* segment 0 reports "unknown", 1 reports "zh", 2 reports "en" and was
\* collected before segment 1: the aggregate reports "zh"
C11_Witness ==
    /\ pc = "returned"
    /\ N >= 3
    /\ OutcomeLanguage(0) = "unknown"
    /\ OutcomeLanguage(1) = "zh"
    /\ OutcomeLanguage(2) = "en"
    /\ seg[2].order < seg[1].order
    /\ The(ret).language = "zh"

SegmentMarker == <<"[", "S", "e", "g", "m", "e", "n", "t", " ", "2", " ",
                   "f", "a", "i", "l", "e", "d", ":", " ">>
ChunkMarker == <<"[", "C", "h", "u", "n", "k", " ", "2", " ",
                 "f", "a", "i", "l", "e", "d", ":", " ">>
TwoSegmentsSecondExhausted ==
    /\ pc = "returned"
    /\ file_size > MAX_FILE_SIZE
    /\ Len(chunk_paths) = 2
    /\ seg[0].st = "returned"
    /\ seg[1].st = "raised"
    /\ IsRateLimit(seg[1].err)

\* C12 as stated: with 2 segments, segment 0 succeeding and segment 1 failing
\* all its retries, the text is segment 0's text, "\n\n" and
\* "[Segment 2 failed: <error>]", and the duration is segment 0's.
C12_SegmentMarker ==
    TwoSegmentsSecondExhausted =>
        /\ The(ret).text = The(seg[0].result).text \o <<"\n", "\n">>
                           \o SegmentMarker \o seg[1].err \o <<"]">>
        /\ The(ret).duration = The(seg[0].result).duration

\* C12 amended: the marker reads "[Chunk 2 failed: <error>]" with the first
\* 50 characters of the error, and the duration is segment 0's when that is
\* positive, absent otherwise.
C12_Amended ==
    TwoSegmentsSecondExhausted =>
        /\ The(ret).text = The(seg[0].result).text \o <<"\n", "\n">>
                           \o ChunkMarker
                           \o SubSeq(seg[1].err, 1,
                                     IF Len(seg[1].err) > 50 THEN 50
                                     ELSE Len(seg[1].err))
                           \o <<"]">>
        /\ The(ret).duration =
               IF The(seg[0].result).duration \in {None, Some(0)} THEN None
               ELSE The(seg[0].result).duration

\* segment 1 ended on an error message longer than 50 characters
C12_Witness ==
    /\ TwoSegmentsSecondExhausted
    /\ Len(seg[1].err) > 50
    /\ The(seg[0].result).duration = Some(10)

RECURSIVE SumDurations(_)
SumDurations(S) ==
    IF S = {} THEN 0
    ELSE LET i == CHOOSE i \in S : TRUE
         IN  (IF OutcomeDuration(i) = None THEN 0 ELSE The(OutcomeDuration(i)))
             + SumDurations(S \ {i})

\* C13 as stated: the returned duration is the sum of the durations the
\* segments report, and absent when no segment reports one.
C13_DurationSum ==
    (pc \in {"cleanup", "returned"} /\ ret # None) =>
        The(ret).duration =
            IF \A i \in Indices : OutcomeDuration(i) = None THEN None
            ELSE Some(SumDurations(Indices))

\* C13 amended: the returned duration is that sum when it is positive, and
\* absent when it is 0: no segment reports a duration, or every reported
\* duration is 0.
C13_Amended ==
    (pc \in {"cleanup", "returned"} /\ ret # None) =>
        The(ret).duration =
            IF SumDurations(Indices) > 0 THEN Some(SumDurations(Indices))
            ELSE None

\* three segments: two report 10 s, one failed; 20 s are returned
C13_Witness ==
    /\ pc = "returned"
    /\ N >= 3
    /\ \E i \in Indices : seg[i].st = "raised"
    /\ Cardinality({i \in Indices : OutcomeDuration(i) = Some(10)}) = 2
    /\ The(ret).duration = Some(20)

\* len(text.split("\n\n"))
RECURSIVE Pieces(_)
Pieces(text) ==
    IF Len(text) < 2 THEN 1
    ELSE IF text[1] = "\n" /\ text[2] = "\n"
    THEN 1 + Pieces(SubSeq(text, 3, Len(text)))
    ELSE Pieces(Tail(text))

\* C14 as stated: for a blob over the threshold the returned text has as
\* many "\n\n"-separated pieces as the splitter extracted segments.
C14_PiecesEqualExtracted ==
    (file_size > MAX_FILE_SIZE /\ pc = "returned") =>
        Pieces(The(ret).text) = Len(chunks_to_cleanup)

\* C14 amended: the pieces are as many as the entries of the list
\* _split_audio returned: the extracted segments, or 1 when it returned the
\* original file because nothing was extracted.
C14_Amended ==
    (file_size > MAX_FILE_SIZE /\ pc = "returned") =>
        /\ Pieces(The(ret).text) = Len(chunk_paths)
        /\ Len(chunk_paths) = IF chunks_to_cleanup = <<>> THEN 1
                              ELSE Len(chunks_to_cleanup)

\* two of three ranges were extracted, one segment failed: two pieces
C14_Witness ==
    /\ file_size > MAX_FILE_SIZE
    /\ pc = "returned"
    /\ Len(chunks_to_cleanup) = 2
    /\ output_path(1) \notin SeqToSet(chunks_to_cleanup)
    /\ \E i \in Indices : seg[i].st = "raised"
    /\ Pieces(The(ret).text) = 2


\* ceil(d / c) for d > 0
Ceil(d, c) == CHOOSE n \in 1..d : n * c >= d /\ (n - 1) * c < d

\* the ranges for which a command was run, one entry per stream-copy run
CopyRuns == SelectSeq(extract_log, LAMBDA e : e.mode = "copy")

FiftyMinutes == 50 * 60

\* C18: when _split_audio returns after probing D > 0, the stream-copy runs
\* are exactly ceil(D / CHUNK_DURATION) when that is more than 1, the i-th
\* (from 0) with -ss i * CHUNK_DURATION and -t CHUNK_DURATION, in
\* increasing i, and a re-encoding run only repeats the range of the run
\* before it; when ceil(D / CHUNK_DURATION) <= 1 no command is run and the
\* original file is the only segment. For D = 50 minutes the ranges are 0
\* and 1 and, when extracted, they are segments 0 and 1.
C18_RangesAttempted ==
    (pc = "split_return" /\ duration # None /\ The(duration) > 0) =>
        LET n == Ceil(The(duration), CHUNK_DURATION)
        IN  /\ n <= 1 => extract_log = <<>> /\ chunks = <<temp_path>>
            /\ n > 1 =>
                 /\ Len(CopyRuns) = n
                 /\ \A k \in 1..n :
                       /\ CopyRuns[k].i = k - 1
                       /\ CopyRuns[k].ss = (k - 1) * CHUNK_DURATION
                       /\ CopyRuns[k].t = CHUNK_DURATION
                 /\ \A k \in 1..Len(extract_log) :
                       extract_log[k].mode = "reencode" =>
                           /\ k > 1
                           /\ extract_log[k - 1].mode = "copy"
                           /\ extract_log[k - 1].i = extract_log[k].i
                           /\ extract_log[k - 1].ss = extract_log[k].ss
                           /\ extract_log[k - 1].t = extract_log[k].t
            /\ (The(duration) = FiftyMinutes) =>
                 /\ n = 2
                 /\ Len(chunks) <= 2
                 /\ (Len(extract_log) = 2 /\ Len(chunks) = 2) =>
                        chunks = <<output_path(0), output_path(1)>>

\* a 50-minute recording: two stream copies at 0 s and 1500 s gave segments
\* 0 and 1
C18_Witness ==
    /\ pc = "split_return"
    /\ duration = Some(FiftyMinutes)
    /\ Len(extract_log) = 2
    /\ extract_log[2].ss = 1500
    /\ chunks = <<output_path(0), output_path(1)>>

\* C19: when the probe returned absent, _split_audio ran no ffmpeg command
\* and returned the original staged file alone; transcribe then runs it as
\* segment 0 of 1 in the caller, never through the pool.
C19_ProbeAbsentSingleSegment ==
    (split_how = "probe_absent") =>
        /\ extract_log = <<>>
        /\ \A f \in files : ~IsChunkFile(f)
        /\ pc = "split_return" => chunks = <<temp_path>>
        /\ pc \notin SplitPcs =>
              /\ chunk_paths = <<temp_path>>
              /\ chunks_to_cleanup = <<>>
        /\ pc # "collect"
        /\ seg # NoSegments => Indices = {0}
        /\ results # <<>> => (Len(results) = 1 /\ results[1].index = 0)

\* the probe was absent and the original file was transcribed in the caller
C19_Witness ==
    /\ split_how = "probe_absent"
    /\ file_size > MAX_FILE_SIZE
    /\ pc = "returned"
    /\ Indices = {0}
    /\ seg[0].st = "returned"
    /\ The(ret).text = The(seg[0].result).text

\* C20: a range that was tried and is not among the segments was also tried
\* with re-encoding: a segment is omitted only after both modes failed.
C20_ReencodeBeforeOmission ==
    (pc \in {"split_copy", "split_return"}) =>
        \A k \in 1..Len(extract_log) :
            (/\ extract_log[k].mode = "copy"
             /\ output_path(extract_log[k].i) \notin SeqToSet(chunks)) =>
                \E j \in 1..Len(extract_log) :
                    /\ extract_log[j].mode = "reencode"
                    /\ extract_log[j].i = extract_log[k].i


\* ------------------------------------------------------------------------
\* DocumentGenerator.split_for_line (document.py, lines 40-82)
\*
\* A text is the sequence of the lengths of its lines (text.split("\n")),
\* every character of a line being a non-blank one; a string of lines is
\* the sequence of their lengths.
\* ------------------------------------------------------------------------
MaxLines == 3

\* def split_for_line(self, text, max_length: int = 4500)
max_length == 4500

\* "LINE has a 5000 character limit per message."
LINE_LIMIT == 5000

LineLengths == {0, 1, 2250, 4487, 4488, 4499, 4500, 4501, 5001}

DocTexts == UNION {[1..n -> LineLengths] : n \in 1..MaxLines}

RECURSIVE SumLen(_)
SumLen(ls) == IF ls = <<>> THEN 0 ELSE Head(ls) + SumLen(Tail(ls))

\* len(text) of "\n".join(lines)
JoinedLen(ls) == IF ls = <<>> THEN 0 ELSE SumLen(ls) + Len(ls) - 1

\* len(current_chunk), every line of which is followed by "\n"
TerminatedLen(ls) == SumLen(ls) + Len(ls)

\* current_chunk.strip(): the blank lines at both ends and the last "\n" go
RECURSIVE StripLeft(_)
StripLeft(ls) ==
    IF ls # <<>> /\ Head(ls) = 0 THEN StripLeft(Tail(ls)) ELSE ls
RECURSIVE StripRight(_)
StripRight(ls) ==
    IF ls # <<>> /\ ls[Len(ls)] = 0 THEN StripRight(SubSeq(ls, 1, Len(ls) - 1))
    ELSE ls
Strip(ls) == StripRight(StripLeft(ls))

\* lines 57-68: the loop over the lines; st is <<chunks, current_chunk>>
RECURSIVE SplitLoop(_, _, _)
SplitLoop(lines, chunks_, current_chunk) ==
    IF lines = <<>> THEN <<chunks_, current_chunk>>
    ELSE LET line == Head(lines)
         IN  IF TerminatedLen(current_chunk) + line + 1 > max_length
             THEN SplitLoop(Tail(lines),
                            IF current_chunk # <<>>
                            THEN Append(chunks_, Strip(current_chunk))
                            ELSE chunks_,
                            <<line>>)
             ELSE SplitLoop(Tail(lines), chunks_, Append(current_chunk, line))

\* f"<U+1F4C4> Part {i+1}/{len(chunks)}\n\n"; "#" stands for the one
\* code point U+1F4C4
PartHeader(i, n) ==
    <<"#", " ", "P", "a", "r", "t", " ">> \o Str(i + 1) \o <<"/">>
    \o Str(n) \o <<"\n", "\n">>

\* a returned message: the header (empty when there is one part) and the
\* lines after it
split_for_line(text) ==
    IF JoinedLen(text) <= max_length
    THEN << [header |-> <<>>, lines |-> text] >>
    ELSE LET st     == SplitLoop(text, <<>>, <<>>)
             chunks_ == IF Strip(st[2]) # <<>>
                        THEN Append(st[1], Strip(st[2]))
                        ELSE st[1]
         IN  [k \in 1..Len(chunks_) |->
                 [header |-> IF Len(chunks_) > 1
                             THEN PartHeader(k - 1, Len(chunks_))
                             ELSE <<>>,
                  lines  |-> chunks_[k]]]

\* len(chunk) of a returned message
PartLen(p) == Len(p.header) + JoinedLen(p.lines)

TranscribeIdle ==
    /\ pc = "idle"
    /\ file_size = 0
    /\ files = {}
    /\ duration = None
    /\ num_chunks = 0
    /\ loop_i = 0
    /\ chunks = <<>>
    /\ chunk_paths = <<>>
    /\ chunks_to_cleanup = <<>>
    /\ seg = NoSegments
    /\ results = <<>>
    /\ ret = None
    /\ exc = None
    /\ extract_log = <<>>
    /\ split_how = "not_called"

HintIdle == b_msg = <<>> /\ b_attempt = 0 /\ b_out = None

DocInit ==
    /\ TranscribeIdle
    /\ HintIdle
    /\ d_text \in DocTexts
    /\ d_parts = None
    /\ AppIdle
    /\ ProbeIdle

\* send_message: chunks = document_generator.split_for_line(text)
SplitForLine ==
    /\ pc = "idle"
    /\ d_text # <<>>
    /\ d_parts = None
    /\ d_parts' = Some(split_for_line(d_text))
    /\ UNCHANGED <<t_vars, b_vars, app_vars, probe_vars, d_text>>

DocNext == SplitForLine

DocSpec == DocInit /\ [][DocNext]_vars

\* C17: every message split_for_line returns with the default max_length
\* is at most 5000 characters long, the "Part i/n" header included, also
\* for a text with a single line longer than max_length.
C17_PartsWithinLineLimit ==
    (d_parts # None) =>
        \A k \in 1..Len(The(d_parts)) : PartLen(The(d_parts)[k]) <= LINE_LIMIT


\* ------------------------------------------------------------------------
\* app.py: the webhook handlers and process_audio_async;
\* auth/password_manager.py: the daily password and the sessions
\* ------------------------------------------------------------------------
MaxEvents == 3

\* the dates (year, month, day in UTC+8) the clock goes through
Calendar == << <<2026, 2, 3>>, <<2026, 2, 4>>, <<2027, 2, 3>> >>

\* now.strftime("%Y-%m-%d")
get_today_date_string == Calendar[today]

\* f"{n:02d}"
TwoDigits(n) == IF n < 10 THEN <<"0">> \o Str(n) ELSE Str(n)

\* f"meeting{now.month:02d}{now.day:02d}"
get_today_password ==
    <<"m", "e", "e", "t", "i", "n", "g">>
    \o TwoDigits(Calendar[today][2]) \o TwoDigits(Calendar[today][3])

Whitespace == {" ", "\n", "\t", "\r"}

\* str.strip()
RECURSIVE LStrip(_)
LStrip(t) == IF t # <<>> /\ Head(t) \in Whitespace THEN LStrip(Tail(t)) ELSE t
RECURSIVE RStrip(_)
RStrip(t) ==
    IF t # <<>> /\ t[Len(t)] \in Whitespace
    THEN RStrip(SubSeq(t, 1, Len(t) - 1)) ELSE t
StripWs(t) == RStrip(LStrip(t))

\* password.strip().lower() == self.get_today_password().lower()
check_password(password) == Lower(StripWs(password)) = Lower(get_today_password)

\* mutant: everybody is authenticated
is_authenticated_mut2(user_id) == TRUE

\* mutant: a session of any date counts
is_authenticated_mut(user_id) == sessions[user_id] # None

\* lines 68-81 of password_manager.py
is_authenticated(user_id) ==
    /\ sessions[user_id] # None
    /\ The(sessions[user_id]) = get_today_date_string

\* the texts users send: the passwords of two days, one of them with
\* capitals and blanks around it, and a text that is no password
MessageTexts ==
    { <<" ", "M", "e", "e", "t", "i", "n", "g", "0", "2", "0", "3", " ">>,
      <<"m", "e", "e", "t", "i", "n", "g", "0", "2", "0", "4">>,
      <<"h", "i">> }

\* event.message.file_name
FileNames ==
    { None,
      Some(<<"T", "a", "l", "k", ".", "M", "P", "3">>),
      Some(<<"n", "o", "t", "e", "s", ".", "t", "x", "t">>) }

audio_extensions ==
    { <<".", "m", "4", "a">>, <<".", "m", "p", "3">>, <<".", "w", "a", "v">>,
      <<".", "o", "g", "g">>, <<".", "f", "l", "a", "c">>,
      <<".", "m", "p", "4">>, <<".", "m", "p", "e", "g">>,
      <<".", "m", "p", "g", "a">>, <<".", "w", "e", "b", "m">> }

\* file_name.endswith(audio_extensions)
EndsWith(t, suffix) ==
    /\ Len(t) >= Len(suffix)
    /\ SubSeq(t, Len(t) - Len(suffix) + 1, Len(t)) = suffix
EndsWithAny(t, suffixes) == \E x \in suffixes : EndsWith(t, x)

\* file_name.split('.')[-1] if '.' in file_name else 'm4a'
M4A == <<"m", "4", "a">>
FileExt(file_name) ==
    LET dots == {k \in 1..Len(file_name) : file_name[k] = "."}
    IN  IF dots = {} THEN M4A
        ELSE SubSeq(file_name,
                    (CHOOSE k \in dots : \A j \in dots : j <= k) + 1,
                    Len(file_name))

\* reply_message may raise (the LINE API call fails)
ReplyOutcomes == {"sent", "raised"}

\* what a handler leaves behind when its last statement has run
Handled(kind, user, authed, reply, file_ext, unit) ==
    [st |-> "handling", kind |-> kind, user |-> user, authed |-> authed,
     reply |-> reply, file_ext |-> file_ext, unit |-> unit]

\* threading.Thread(target=process_audio_async, args=(user_id, message_id))
NewUnit(user_id, message_id) ==
    [user |-> user_id, message_id |-> message_id, pc |-> "download",
     acked |-> FALSE, file_extension |-> None, result |-> None,
     raised |-> "none", summarize_in |-> None, sent |-> <<>>]

\* lines 199-225
HandleText ==
    /\ pc = "idle"
    /\ handler.st = "idle"
    /\ handled < MaxEvents
    /\ handled' = handled + 1
    /\ \E user_id \in Users, text \in MessageTexts, r \in ReplyOutcomes :
         IF is_authenticated(user_id)
         THEN /\ handler' = Handled("text", user_id, TRUE,
                                    IF r = "sent" THEN "already" ELSE r,
                                    None, 0)
              /\ UNCHANGED sessions
         ELSE IF check_password(StripWs(text))
         THEN /\ sessions' = [sessions EXCEPT
                                ![user_id] = Some(get_today_date_string)]
              /\ handler' = Handled("text", user_id, FALSE,
                                    IF r = "sent" THEN "welcome" ELSE r,
                                    None, 0)
         ELSE /\ handler' = Handled("text", user_id, FALSE,
                                    IF r = "sent" THEN "incorrect" ELSE r,
                                    None, 0)
              /\ UNCHANGED sessions
    /\ UNCHANGED <<t_vars, b_vars, doc_vars, probe_vars, today, units>>

\* lines 228-258
HandleAudio ==
    /\ pc = "idle"
    /\ handler.st = "idle"
    /\ handled < MaxEvents
    /\ handled' = handled + 1
    /\ \E user_id \in Users, r \in ReplyOutcomes :
         IF ~is_authenticated(user_id)
         THEN /\ handler' = Handled("audio", user_id, FALSE,
                                    IF r = "sent" THEN "password_prompt" ELSE r,
                                    None, 0)
              /\ UNCHANGED units
         ELSE IF r = "raised"
         THEN /\ handler' = Handled("audio", user_id, TRUE, r, None, 0)
              /\ UNCHANGED units
         ELSE /\ handler' = Handled("audio", user_id, TRUE, "processing",
                                    None, Len(units) + 1)
              /\ units' = Append(units, NewUnit(user_id, handled + 1))
    /\ UNCHANGED <<t_vars, b_vars, doc_vars, probe_vars, today, sessions>>

\* lines 261-304
HandleFile ==
    /\ pc = "idle"
    /\ handler.st = "idle"
    /\ handled < MaxEvents
    /\ handled' = handled + 1
    /\ \E user_id \in Users, name \in FileNames, r \in ReplyOutcomes :
         LET file_name == IF name = None THEN <<>> ELSE Lower(The(name))
         IN  IF ~is_authenticated(user_id)
             THEN /\ handler' = Handled("file", user_id, FALSE,
                                        IF r = "sent" THEN "password_prompt"
                                        ELSE r, None, 0)
                  /\ UNCHANGED units
             ELSE IF ~EndsWithAny(file_name, audio_extensions)
             THEN /\ handler' = Handled("file", user_id, TRUE,
                                        IF r = "sent" THEN "not_audio" ELSE r,
                                        None, 0)
                  /\ UNCHANGED units
             ELSE IF r = "raised"
             THEN /\ handler' = Handled("file", user_id, TRUE, r,
                                        Some(FileExt(file_name)), 0)
                  /\ UNCHANGED units
             ELSE /\ handler' = Handled("file", user_id, TRUE, "processing",
                                        Some(FileExt(file_name)),
                                        Len(units) + 1)
                  /\ units' = Append(units, NewUnit(user_id, handled + 1))
    /\ UNCHANGED <<t_vars, b_vars, doc_vars, probe_vars, today, sessions>>

\* mutant: the handler joins the thread it started
WaitsForUnit_mut(k) == k > 0 /\ units[k].pc # "done"

\* lines 254-258 and 300-304: thread.start() is the last statement, the
\* thread is never joined
WaitsForUnit(k) == FALSE

\* the handler returns and callback() answers the webhook request
CallbackReturn ==
    /\ handler.st = "handling"
    /\ ~WaitsForUnit(handler.unit)
    /\ handler' = IdleHandler
    /\ units' = IF handler.unit = 0 THEN units
                ELSE [units EXCEPT ![handler.unit].acked = TRUE]
    /\ UNCHANGED <<t_vars, b_vars, doc_vars, probe_vars, today, sessions, handled>>

\* the date (UTC+8) changes
DayChanges ==
    /\ pc = "idle"
    /\ today < Len(Calendar)
    /\ today' = today + 1
    /\ UNCHANGED <<t_vars, b_vars, doc_vars, probe_vars, sessions, handler, handled, units>>

\* what transcription_service.transcribe returns: nothing heard, two silent
\* segments joined, one segment, and a segment followed by a failure marker
TranscriptTexts ==
    { <<>>,
      Separator,
      SegText(0),
      SegText(0) \o Separator \o FailedText(1, E500) }

TranscribeReturns ==
    {[text |-> t, duration |-> Some(10), language |-> "zh"] :
        t \in TranscriptTexts}

Message(kind, text) == [kind |-> kind, text |-> text]

\* mutant: the message is built and dropped
send_message_mut(sent, m) == sent

\* lines 95-114: send_message(user_id, text) pushes the text (in one or
\* more chunks) to the user; the push is taken not to fail
send_message(sent, m) == Append(sent, m)

\* mutant: every transcript counts as speech
NoSpeech_mut(transcript) == FALSE

\* not transcript or transcript.strip() == ""
NoSpeech(transcript) == transcript = <<>> \/ StripWs(transcript) = <<>>

\* lines 146-149: blob_api.get_message_content(message_id); when it raises,
\* the outer except (194-196) sends the general error
UDownload(k) ==
    /\ units[k].pc = "download"
    /\ \E raises \in BOOLEAN :
         units' = [units EXCEPT ![k] =
             IF raises
             THEN [@ EXCEPT !.pc = "done", !.raised = "download",
                            !.sent = send_message(@, Message("general_error", <<>>))]
             ELSE [@ EXCEPT !.pc = "transcribe"]]
    /\ UNCHANGED <<t_vars, b_vars, doc_vars, probe_vars, today, sessions, handler, handled>>

\* lines 153-169: transcribe(audio_data, file_extension="m4a"), the error
\* message when it raises, the notice when nothing was heard
UTranscribe(k) ==
    /\ units[k].pc = "transcribe"
    /\ \/ units' = [units EXCEPT ![k] =
             [@ EXCEPT !.pc = "done", !.raised = "transcribe",
                       !.file_extension = Some(M4A),
                       !.sent = send_message(@, Message("transcription_error", <<>>))]]
       \/ \E transcription_result \in TranscribeReturns :
            units' = [units EXCEPT ![k] =
                IF NoSpeech(transcription_result.text)
                THEN [@ EXCEPT !.pc = "done",
                               !.file_extension = Some(M4A),
                               !.result = Some(transcription_result),
                               !.sent = send_message(@, Message("no_speech", <<>>))]
                ELSE [@ EXCEPT !.pc = "summarize",
                               !.file_extension = Some(M4A),
                               !.result = Some(transcription_result)]]
    /\ UNCHANGED <<t_vars, b_vars, doc_vars, probe_vars, today, sessions, handler, handled>>

\* lines 174-186: summarize(transcript, ...); when it raises the transcript
\* is sent with a warning
USummarize(k) ==
    /\ units[k].pc = "summarize"
    /\ \E raises \in BOOLEAN :
         units' = [units EXCEPT ![k] =
             IF raises
             THEN [@ EXCEPT !.pc = "done", !.raised = "summarize",
                            !.summarize_in = Some(The(units[k].result).text),
                            !.sent = send_message(@, Message("raw_transcript",
                                                     The(units[k].result).text))]
             ELSE [@ EXCEPT !.pc = "format",
                            !.summarize_in = Some(The(units[k].result).text)]]
    /\ UNCHANGED <<t_vars, b_vars, doc_vars, probe_vars, today, sessions, handler, handled>>

\* lines 189-190: format_for_line and send_message
UFormatSend(k) ==
    /\ units[k].pc = "format"
    /\ units' = [units EXCEPT ![k] =
                    [@ EXCEPT !.pc = "done",
                              !.sent = send_message(@, Message("summary", <<>>))]]
    /\ UNCHANGED <<t_vars, b_vars, doc_vars, probe_vars, today, sessions, handler, handled>>

AppInit ==
    /\ TranscribeIdle
    /\ HintIdle
    /\ DocIdle
    /\ AppIdle
    /\ ProbeIdle

AppNext ==
    \/ HandleText
    \/ HandleAudio
    \/ HandleFile
    \/ CallbackReturn
    \/ DayChanges
    \/ \E k \in 1..Len(units) : UDownload(k)
    \/ \E k \in 1..Len(units) : UTranscribe(k)
    \/ \E k \in 1..Len(units) : USummarize(k)
    \/ \E k \in 1..Len(units) : UFormatSend(k)

AppSpec == AppInit /\ [][AppNext]_vars

\* C15: once the handler of an audio or file event of an authenticated user
\* has sent the confirmation and started the thread, its return (and the
\* webhook response) is enabled in every state, whatever the thread is
\* doing: the handler waits for nothing.
C15_HandlerNeverWaits ==
    (handler.st = "handling" /\ handler.unit > 0) =>
        /\ handler.kind \in {"audio", "file"}
        /\ handler.authed
        /\ handler.reply = "processing"
        /\ ENABLED CallbackReturn

\* a handler has returned while the thread it started has not yet
\* downloaded the audio, and another while its thread is transcribing
C15_Witness ==
    /\ handler.st = "idle"
    /\ \E k \in 1..Len(units) : units[k].acked /\ units[k].pc = "download"
    /\ \E k \in 1..Len(units) : units[k].acked /\ units[k].pc = "transcribe"

HasMarker(t) == Contains(t, <<"[", "C", "h", "u", "n", "k", " ">>)

\* C16 as stated: when transcribe raised the user got the error message and
\* summarize is never called; when transcribe returned a non-empty text,
\* summarize is called with it.
C16_NonEmptyIsSummarized ==
    \A k \in 1..Len(units) :
        /\ units[k].raised = "transcribe" =>
              /\ units[k].sent = <<Message("transcription_error", <<>>)>>
              /\ units[k].summarize_in = None
              /\ units[k].pc = "done"
        /\ (/\ units[k].result # None
            /\ The(units[k].result).text # <<>>
            /\ units[k].pc \in {"format", "done"}) =>
              units[k].summarize_in = Some(The(units[k].result).text)

\* C16 amended: when transcribe raised the user got the error message and
\* summarize is never called; when transcribe returned a text that is
\* neither empty nor made of whitespace only, summarize is called with it;
\* an empty or whitespace-only text gets the no-speech notice and is not
\* summarized.
C16_Amended ==
    \A k \in 1..Len(units) :
        /\ units[k].raised = "transcribe" =>
              /\ units[k].sent = <<Message("transcription_error", <<>>)>>
              /\ units[k].summarize_in = None
              /\ units[k].pc = "done"
        /\ (/\ units[k].result # None
            /\ units[k].pc \in {"format", "done"}) =>
              IF StripWs(The(units[k].result).text) # <<>>
              THEN units[k].summarize_in = Some(The(units[k].result).text)
              ELSE /\ units[k].summarize_in = None
                   /\ units[k].sent = <<Message("no_speech", <<>>)>>

\* one thread ended on the transcription error, another passed a text with
\* a failure marker to summarize
C16_Witness ==
    /\ \E k \in 1..Len(units) :
          units[k].raised = "transcribe" /\ units[k].pc = "done"
    /\ \E k \in 1..Len(units) :
          /\ units[k].summarize_in # None
          /\ HasMarker(The(units[k].summarize_in))


\* the last run of range i in the log (0 when the range was not run)
LastRun(i) ==
    LET ks == {k \in 1..Len(extract_log) : extract_log[k].i = i}
    IN  IF ks = {} THEN 0 ELSE CHOOSE k \in ks : \A j \in ks : j <= k

\* range i was extracted: its last run ended with exit code 0 and left the
\* output file
RangeExtracted(i) == LastRun(i) > 0 /\ extract_log[LastRun(i)].ok

\* C21: for every probe outcome and every outcome of every ffmpeg run,
\* _split_audio returns a non-empty list: the output files of the ranges
\* that were extracted, in increasing order of range index, every other
\* range left out, or the original file alone when no range was extracted.
C21_ReturnsExtractedInOrder ==
    (pc = "split_return") =>
        LET extracted == {i \in 0..(num_chunks - 1) : RangeExtracted(i)}
        IN  /\ chunks # <<>>
            /\ extracted = {} => chunks = <<temp_path>>
            /\ extracted # {} =>
                 /\ Len(chunks) = Cardinality(extracted)
                 /\ \A k \in 1..Len(chunks) :
                       /\ \E i \in extracted : chunks[k] = output_path(i)
                       /\ chunks[k] \in files
                 /\ \A k \in 1..(Len(chunks) - 1) : chunks[k][2] < chunks[k + 1][2]

\* three ranges: range 0 extracted by stream copy, range 1 lost to an
\* exception, range 2 extracted by re-encoding
C21_Witness ==
    /\ pc = "split_return"
    /\ num_chunks = 3
    /\ chunks = <<output_path(0), output_path(2)>>
    /\ extract_log[LastRun(1)].mode = "copy"
    /\ ~extract_log[LastRun(1)].ok
    /\ extract_log[LastRun(2)].mode = "reencode"


\* ------------------------------------------------------------------------
\* TranscriptionService._get_audio_duration (lines 44-61)
\* ------------------------------------------------------------------------
MaxOutLen == 3

\* characters ffprobe prints: digits, the dot, the newline, and "x" for any
\* character that is no part of a number ("N/A")
OutAlphabet == {"0", "3", ".", "\n", "x"}

ProbeOutputs == UNION {[1..n -> OutAlphabet] : n \in 0..MaxOutLen}

\* subprocess.run(['ffprobe', ...], timeout=30): it raises (ffprobe missing,
\* timeout) or gives an exit code and the text printed
ProbeRuns ==
    {[raises |-> e, returncode |-> 0, stdout |-> <<>>] :
        e \in {"FileNotFoundError", "TimeoutExpired"}}
    \cup {[raises |-> "no", returncode |-> c, stdout |-> out] :
             c \in {0, 1}, out \in ProbeOutputs}

\* float(s) accepts s: blanks around a number made of digits and at most
\* one dot
PyFloatOK(s) ==
    /\ \A k \in 1..Len(StripWs(s)) : StripWs(s)[k] \in DigitOrDotChars
    /\ FloatOK(StripWs(s))

\* mutant: except ValueError instead of except Exception
Caught_mut(e) == e = "ValueError"

\* line 59: except Exception
Caught(e) == TRUE

\* what the body of the try does: a value to return, an exception, or
\* neither (the test of line 57 fails)
ProbeBody(run) ==
    IF run.raises # "no" THEN [exc |-> run.raises, ret |-> None]
    ELSE IF run.returncode = 0 /\ StripWs(run.stdout) # <<>>
    THEN IF PyFloatOK(StripWs(run.stdout))
         THEN [exc |-> "no", ret |-> Some(ParseFloat(StripWs(run.stdout)))]
         ELSE [exc |-> "ValueError", ret |-> None]
    ELSE [exc |-> "no", ret |-> None]

ProbeInit ==
    /\ TranscribeIdle
    /\ HintIdle
    /\ DocIdle
    /\ AppIdle
    /\ p_run \in {Some(r) : r \in ProbeRuns}
    /\ p_ret = <<>>
    /\ p_exc = None

GetAudioDuration ==
    /\ p_run # None
    /\ p_ret = <<>>
    /\ p_exc = None
    /\ LET b == ProbeBody(The(p_run))
       IN  IF b.exc = "no" THEN p_ret' = <<b.ret>> /\ p_exc' = None
           ELSE IF Caught(b.exc) THEN p_ret' = <<None>> /\ p_exc' = None
           ELSE p_ret' = <<>> /\ p_exc' = Some(b.exc)
    /\ UNCHANGED <<t_vars, b_vars, doc_vars, app_vars, p_run>>

ProbeNext == GetAudioDuration

ProbeSpec == ProbeInit /\ [][ProbeNext]_vars

\* the text is a number: digits with at most one dot, blanks around it
IsNumberText(out) ==
    LET t == StripWs(out)
    IN  /\ t # <<>>
        /\ \A k \in 1..Len(t) : t[k] \in {"0", "3", "."}
        /\ Cardinality({k \in 1..Len(t) : t[k] = "."}) <= 1
        /\ \E k \in 1..Len(t) : t[k] \in {"0", "3"}

\* C22: _get_audio_duration never raises; it returns a number exactly when
\* ffprobe ran, exited with code 0 and printed a number, and None for a
\* launch failure, a timeout, a non-zero exit, an empty output and an
\* unparseable output.
C22_ProbeNeverRaises ==
    /\ p_exc = None
    /\ p_ret # <<>> =>
          LET run == The(p_run)
              number == /\ run.raises = "no"
                        /\ run.returncode = 0
                        /\ IsNumberText(run.stdout)
          IN  (p_ret[1] # None) <=> number

\* ffprobe printed "x" with exit code 0: float() raised, None was returned
C22_Witness ==
    /\ p_ret = <<None>>
    /\ The(p_run).raises = "no"
    /\ The(p_run).returncode = 0
    /\ The(p_run).stdout = <<"x", "\n">>


Sleeping(i) == i \in Indices /\ seg[i].st = "sleeping"
OldestQueued(j) ==
    /\ seg[j].st = "queued"
    /\ \A k \in Indices : k < j => seg[k].st # "queued"

\* C23: while a segment sleeps in its back-off, a segment running on the
\* other worker can send its request, a segment sleeping on the other
\* worker can wake up and retry, and the oldest queued segment can start
\* when the sleeping one is the only segment holding a worker; and a step
\* of one segment leaves the record of every other segment (attempt
\* number, wait, error) as it was.
C23_BackoffIsPerSegment ==
    /\ [](\A i \in 0..MaxChunks : \A j \in 0..MaxChunks :
            (pc = "collect" /\ Sleeping(i) /\ j \in Indices /\ j # i) =>
               /\ seg[j].st = "running" => ENABLED Request(j)
               /\ seg[j].st = "sleeping" => ENABLED Wake(j)
               /\ (OldestQueued(j) /\ Busy = {i}) => ENABLED Start(j))
    /\ [][(pc = "collect" /\ pc' = "collect") =>
             Cardinality({i \in Indices : seg'[i] # seg[i]}) <= 1]_vars

\* segment 0 sleeps before its third retry while segment 1, on the other
\* worker, runs its first retry, and segment 2 waits in the queue
C23_Witness ==
    /\ pc = "collect"
    /\ N >= 3
    /\ seg[0].st = "sleeping" /\ seg[0].attempt = 2
    /\ seg[1].st = "running" /\ seg[1].attempt = 1
    /\ seg[2].st = "queued"


Started(i) == i \in Indices /\ seg[i].st # "queued"

\* C24: every started segment call has a client of its own, created by the
\* call: not the client of the service and not the client of another call;
\* all its requests went through that client, so no two calls ever send
\* requests through the same client.
C24_OwnClientPerSegment ==
    \A i \in 0..MaxChunks : Started(i) =>
        /\ seg[i].client \notin {0, self_client}
        /\ seg[i].used \subseteq {seg[i].client}
        /\ \A j \in 0..MaxChunks :
              (Started(j) /\ j # i) =>
                 /\ seg[j].client # seg[i].client
                 /\ seg[i].used \cap seg[j].used = {}

\* two calls run at once, each on a retry, with different clients
C24_Witness ==
    /\ pc = "collect"
    /\ seg[0].st = "running" /\ seg[0].attempt = 2
    /\ seg[1].st = "running" /\ seg[1].attempt = 1
    /\ seg[0].used = {seg[0].client}
    /\ seg[1].used = {seg[1].client}
    /\ seg[0].client # seg[1].client


\* every provider request and every sleep returns, the pool runs its
\* workers, and the thread of transcribe goes on: no enabled step is put
\* off for ever
FairSpec == Spec /\ WF_vars(Next)

\* C25: transcribe eventually returns or raises, whatever the provider
\* answers, and by then every segment that was submitted is in a terminal
\* state (returned or raised).
C25_EverySegmentEnds ==
    <>(/\ pc \in {"returned", "raised"}
       /\ \A i \in Indices : Terminal(i))

\* the provider answered every request of every segment with a rate-limit
\* error, and transcribe returned
C25_Witness ==
    /\ pc = "returned"
    /\ N >= 2
    /\ \A i \in Indices : seg[i].st = "raised" /\ IsRateLimit(seg[i].err)


\* C26: is_authenticated(user) holds exactly when the date stored for the
\* user is the current date; the stored date changes only by a successful
\* authenticate_user call of that user, which stores the current date; a
\* failed call changes nothing; and right after a change of date no user is
\* authenticated.
C26_SessionValidForTheDay ==
    /\ [](\A u \in Users :
            is_authenticated(u) <=>
                (sessions[u] # None /\ The(sessions[u]) = Calendar[today]))
    /\ [][/\ \A u \in Users :
               sessions'[u] # sessions[u] =>
                  /\ handler'.kind = "text"
                  /\ handler'.user = u
                  /\ handler'.reply \in {"welcome", "raised"}
                  /\ sessions'[u] = Some(Calendar[today])
          /\ (handler' # handler /\ handler'.reply = "incorrect") =>
                 sessions' = sessions
          /\ today' # today =>
                 \A u \in Users :
                    sessions'[u] = None \/ The(sessions'[u]) # Calendar[today']
         ]_vars

\* the date has changed: the session u1 got the day before is not valid any
\* more, u2 has authenticated with the password of the new day
C26_Witness ==
    /\ today = 2
    /\ sessions["u1"] = Some(Calendar[1])
    /\ ~is_authenticated("u1")
    /\ sessions["u2"] = Some(Calendar[2])
    /\ is_authenticated("u2")


\* the user has a session of the current date
SessionOfToday(u) == sessions[u] # None /\ The(sessions[u]) = Calendar[today]

\* C27: a process_audio_async thread is started only by the handler of an
\* audio or file event whose sender has a session of the current date when
\* the event is handled, and it works for that sender and that message; the
\* handler of an audio or file event of a sender without such a session
\* starts no thread and replies with the password prompt only; downloads
\* and transcriptions happen in those threads alone.
C27_OnlyAuthenticatedStartUnits ==
    [][/\ units' # units /\ Len(units') # Len(units) =>
             /\ Len(units') = Len(units) + 1
             /\ SubSeq(units', 1, Len(units)) = units
             /\ handler'.kind \in {"audio", "file"}
             /\ SessionOfToday(handler'.user)
             /\ units'[Len(units')].user = handler'.user
             /\ units'[Len(units')].message_id = handled'
             /\ units'[Len(units')].pc = "download"
       /\ (/\ handler.st = "idle" /\ handler'.st = "handling"
           /\ handler'.kind \in {"audio", "file"}
           /\ ~SessionOfToday(handler'.user)) =>
             /\ units' = units
             /\ handler'.reply \in {"password_prompt", "raised"}
             /\ handler'.unit = 0
      ]_vars

\* u2, without a session, sent audio and got the password prompt; the only
\* thread is the one of u1, who has a session
C27_Witness ==
    /\ handler.st = "handling"
    /\ handler.kind = "audio"
    /\ handler.user = "u2"
    /\ sessions["u2"] = None
    /\ handler.reply = "password_prompt"
    /\ Len(units) = 1
    /\ units[1].user = "u1"


\* the outcome the path of a finished run calls for
OutcomeOf(u) ==
    IF u.raised = "download" THEN "general_error"
    ELSE IF u.raised = "transcribe" THEN "transcription_error"
    ELSE IF u.summarize_in = None THEN "no_speech"
    ELSE IF u.raised = "summarize" THEN "raw_transcript"
    ELSE "summary"

\* C28: with message sending never failing, a run of process_audio_async
\* that is still going has delivered nothing, and a run that has ended has
\* delivered exactly one message, which is the general error, the
\* transcription error, the no-speech notice, the raw transcript with its
\* warning or the formatted summary, as its path calls for.
C28_ExactlyOneOutcome ==
    \A k \in 1..Len(units) :
        IF units[k].pc # "done"
        THEN units[k].sent = <<>>
        ELSE /\ Len(units[k].sent) = 1
             /\ units[k].sent[1].kind \in
                    {"general_error", "transcription_error", "no_speech",
                     "raw_transcript", "summary"}
             /\ units[k].sent[1].kind = OutcomeOf(units[k])

\* two runs have ended, one with the raw transcript after the summary
\* failed and one with the no-speech notice
C28_Witness ==
    /\ Len(units) = 2
    /\ \A k \in 1..2 : units[k].pc = "done" /\ Len(units[k].sent) = 1
    /\ \E a, b \in 1..2 :
          /\ units[a].sent[1].kind = "raw_transcript"
          /\ units[a].raised = "summarize"
          /\ units[b].sent[1].kind = "no_speech"

\* C29: the run started for an uploaded file with an accepted audio
\* extension passes to transcribe the extension derived from the file
\* name, so that the blob is staged under its declared extension.
C29_DeclaredExtensionStaged ==
    ( /\ handler.st = "handling"
      /\ handler.kind = "file"
      /\ handler.unit > 0
      /\ units[handler.unit].file_extension # None )
    => units[handler.unit].file_extension = handler.file_ext
====
